---- MODULE Spec2Model ----
(***************************************************************************)
(* Model of stake_accounts.rs: seeded address derivation and the builders  *)
(* of the create / authorize / move messages, together with the on-chain   *)
(* application of the messages they build.                                 *)
(*                                                                         *)
(* A behaviour is one call of one operation of the module followed, for    *)
(* the message builders, by the submission of the built messages in any    *)
(* order, each message being applied as one indivisible transaction.       *)
(***************************************************************************)
EXTENDS Integers, Sequences, FiniteSets, TLC

VARIABLES op, args, ret, status, accounts

vars == <<op, args, ret, status, accounts>>

----------------------------------------------------------------------------
(* Bounds of the model                                                     *)

\* longest arbitrary seed handed to create_with_seed
MaxSeedTry == 34
\* largest num_accounts handed to derive_stake_account_addresses
MaxAccounts == 12
\* largest number of messages a builder is asked for
MaxBatches == 2
\* number of stake accounts that exist on chain before the call
NumExisting == 2

----------------------------------------------------------------------------
(* Values                                                                  *)

\* A Pubkey is an opaque 32-byte value.  A key that is given, not derived,
\* is [key |-> name]; a derived one is the digest record built by hashv.
Key(k) == [key |-> k]

Keys == {Key("K1"), Key("K2"), Key("K3")}

\* solana_stake_program::id()
StakeProgramId == Key("Stake11111111111111111111111111111111111111")

\* solana_sdk::system_program::id(), the program of the account-creation
\* instruction
SystemProgramId == Key("11111111111111111111111111111111")

\* A usize is 64 bits wide.  It is held as three base-10^9 limbs
\* <<high, middle, low>>, the value being high*10^18 + middle*10^9 + low.
Limb == 10^9

USize(n) == <<0, 0, n>>

\* usize::MAX = 18446744073709551615
USizeMax == <<18, 446744073, 709551615>>

\* ASCII
Ascii0 == 48

RECURSIVE Digits(_)
\* the decimal digits of n, most significant first, no leading zero
Digits(n) ==
    IF n < 10 THEN <<Ascii0 + n>>
    ELSE Digits(n \div 10) \o <<Ascii0 + (n % 10)>>

\* the 9 decimal digits of a limb below the leading one, zero padded
Pad9(n) ==
    LET d == Digits(n)
    IN  [j \in 1..(9 - Len(d)) |-> Ascii0] \o d

\* usize::to_string: the decimal representation as ASCII bytes
to_string(i) ==
    IF i[1] > 0 THEN Digits(i[1]) \o Pad9(i[2]) \o Pad9(i[3])
    ELSE IF i[2] > 0 THEN Digits(i[2]) \o Pad9(i[3])
    ELSE Digits(i[3])

----------------------------------------------------------------------------
(* Address derivation                                                      *)

MAX_SEED_LEN == 32

Ok(v) == [ok |-> TRUE, val |-> v]

Err(e) == [ok |-> FALSE, err |-> e]

\* the outcome of unwrap() on an Err
Panic == [panic |-> "unwrap on Err"]

unwrap(r) == IF r.ok THEN r.val ELSE Panic

\* hashv over the slices base, seed, program_id: the digest of their
\* concatenation.  The first and the last slice are of fixed width, so the
\* concatenation determines the three slices; the digest is taken to be
\* collision free and is held as the slices it was computed from.
hashv(slices) == [hash |-> slices]

\* faulty variant: the limit is compared with >=
create_with_seed_ge(base, seed, program_id) ==
    IF Len(seed) >= MAX_SEED_LEN
    THEN Err("MaxSeedLengthExceeded")
    ELSE Ok(hashv(<<base, seed, program_id>>))

\* faulty variant: the limit is compared the wrong way round
create_with_seed_lt(base, seed, program_id) ==
    IF Len(seed) < MAX_SEED_LEN
    THEN Err("MaxSeedLengthExceeded")
    ELSE Ok(hashv(<<base, seed, program_id>>))

create_with_seed(base, seed, program_id) ==
    IF Len(seed) > MAX_SEED_LEN
    THEN Err("MaxSeedLengthExceeded")
    ELSE Ok(hashv(<<base, seed, program_id>>))

derive_stake_account_address(base_pubkey, i) ==
    unwrap(create_with_seed(base_pubkey, to_string(i), StakeProgramId))

\* faulty variant: the range starts at 1
derive_stake_account_addresses_from1(base_pubkey, num_accounts) ==
    [k \in 1..num_accounts |->
        derive_stake_account_address(base_pubkey, USize(k))]

\* (0..num_accounts).map(..).collect(): position k of the sequence (from 1)
\* holds the address of index k-1
derive_stake_account_addresses(base_pubkey, num_accounts) ==
    [k \in 1..num_accounts |->
        derive_stake_account_address(base_pubkey, USize(k - 1))]

----------------------------------------------------------------------------
(* Instruction constructors of the staking program's library, as the       *)
(* builders call them (solana_stake_program::stake_instruction of the 1.0  *)
(* line, see the note at line 14 of the source, and below it               *)
(* solana_sdk::system_instruction).  The two *_with_seed constructors      *)
(* return a Vec<Instruction> of two instructions, authorize returns a      *)
(* single Instruction.  An instruction is held as the program it is        *)
(* addressed to, its kind and its arguments.                               *)

\* Lockup::default()
LockupDefault == [unix_timestamp |-> 0, epoch |-> 0, custodian |-> Key("default")]

\* system_instruction::create_account_with_seed: allocate `to`, the address
\* seeded from (base, seed, owner), fund it from `from`, assign it to owner
system_create_account_with_seed(from, to, base, seed, lamports, owner) ==
    [program |-> SystemProgramId, kind |-> "CreateAccountWithSeed",
     from |-> from, to |-> to, base |-> base, seed |-> seed,
     lamports |-> lamports, owner |-> owner]

\* stake_instruction::initialize
initialize(stake_pubkey, authorized, lockup) ==
    [program |-> StakeProgramId, kind |-> "Initialize",
     stake |-> stake_pubkey, authorized |-> authorized, lockup |-> lockup]

\* stake_instruction::create_account_with_seed: the account creation
\* followed by the initialization of the stake state
stake_create_account_with_seed(from_pubkey, stake_pubkey, base, seed, authorized, lockup, lamports) ==
    << system_create_account_with_seed(from_pubkey, stake_pubkey, base, seed,
                                       lamports, StakeProgramId),
       initialize(stake_pubkey, authorized, lockup) >>

\* the Split instruction proper
split(stake_pubkey, authorized_pubkey, lamports, split_stake_pubkey) ==
    [program |-> StakeProgramId, kind |-> "Split",
     stake |-> stake_pubkey, authority |-> authorized_pubkey,
     lamports |-> lamports, split_stake |-> split_stake_pubkey]

\* stake_instruction::split_with_seed(stake_pubkey, authorized_pubkey,
\* lamports, split_stake_pubkey, base, seed): the creation of the empty
\* seeded destination followed by the split into it
split_with_seed(stake_pubkey, authorized_pubkey, lamports, split_stake_pubkey, base, seed) ==
    << system_create_account_with_seed(authorized_pubkey, split_stake_pubkey,
                                       base, seed, 0, StakeProgramId),
       split(stake_pubkey, authorized_pubkey, lamports, split_stake_pubkey) >>

\* stake_instruction::authorize
authorize(stake_pubkey, authorized_pubkey, new_authorized_pubkey, role) ==
    [program |-> StakeProgramId, kind |-> "Authorize",
     stake |-> stake_pubkey, authority |-> authorized_pubkey,
     new_authority |-> new_authorized_pubkey, role |-> role]

\* Message::new_with_payer
new_with_payer(instructions, payer) ==
    [payer |-> payer, instructions |-> instructions]

----------------------------------------------------------------------------
(* Message builders                                                        *)

\* faulty variant: the two authorities are handed over in the other order
new_stake_account_swapped(fee_payer_pubkey, sender_pubkey, base_pubkey, lamports, stake_authority_pubkey, withdraw_authority_pubkey) ==
    LET seed == USize(0)
        stake_account_address == derive_stake_account_address(base_pubkey, seed)
        authorized == [staker |-> withdraw_authority_pubkey,
                       withdrawer |-> stake_authority_pubkey]
        instructions == stake_create_account_with_seed(
                            sender_pubkey, stake_account_address, base_pubkey,
                            to_string(seed), authorized, LockupDefault, lamports)
    IN  new_with_payer(instructions, fee_payer_pubkey)

new_stake_account(fee_payer_pubkey, sender_pubkey, base_pubkey, lamports, stake_authority_pubkey, withdraw_authority_pubkey) ==
    LET seed == USize(0)
        stake_account_address == derive_stake_account_address(base_pubkey, seed)
        authorized == [staker |-> stake_authority_pubkey,
                       withdrawer |-> withdraw_authority_pubkey]
        instructions == stake_create_account_with_seed(
                            sender_pubkey, stake_account_address, base_pubkey,
                            to_string(seed), authorized, LockupDefault, lamports)
    IN  new_with_payer(instructions, fee_payer_pubkey)

\* faulty variant: the two authorize instructions are emitted in the other order
authorize_stake_accounts_instructions_swapped(stake_account_address, stake_authority_pubkey, withdraw_authority_pubkey, new_stake_authority_pubkey, new_withdraw_authority_pubkey) ==
    << authorize(stake_account_address, withdraw_authority_pubkey,
                 new_withdraw_authority_pubkey, "Withdrawer"),
       authorize(stake_account_address, stake_authority_pubkey,
                 new_stake_authority_pubkey, "Staker") >>

authorize_stake_accounts_instructions(stake_account_address, stake_authority_pubkey, withdraw_authority_pubkey, new_stake_authority_pubkey, new_withdraw_authority_pubkey) ==
    LET instruction0 == authorize(stake_account_address, stake_authority_pubkey,
                                  new_stake_authority_pubkey, "Staker")
        instruction1 == authorize(stake_account_address, withdraw_authority_pubkey,
                                  new_withdraw_authority_pubkey, "Withdrawer")
    IN  <<instruction0, instruction1>>

\* faulty variant: the destination is left under the authorities it inherits
move_stake_account_split_only(stake_account_address, new_base_pubkey, i, fee_payer_pubkey, stake_authority_pubkey, withdraw_authority_pubkey, new_stake_authority_pubkey, new_withdraw_authority_pubkey, lamports) ==
    LET new_stake_account_address ==
            derive_stake_account_address(new_base_pubkey, i)
        instructions == split_with_seed(stake_account_address,
                            stake_authority_pubkey, lamports,
                            new_stake_account_address,
                            new_stake_authority_pubkey, to_string(i))
    IN  new_with_payer(instructions, fee_payer_pubkey)

move_stake_account(stake_account_address, new_base_pubkey, i, fee_payer_pubkey, stake_authority_pubkey, withdraw_authority_pubkey, new_stake_authority_pubkey, new_withdraw_authority_pubkey, lamports) ==
    LET new_stake_account_address ==
            derive_stake_account_address(new_base_pubkey, i)
        \* the fifth argument, the base of the seeded destination, is
        \* new_stake_authority_pubkey (line 104)
        instructions == split_with_seed(stake_account_address,
                            stake_authority_pubkey, lamports,
                            new_stake_account_address,
                            new_stake_authority_pubkey, to_string(i))
        authorize_instructions == authorize_stake_accounts_instructions(
                            new_stake_account_address,
                            stake_authority_pubkey, withdraw_authority_pubkey,
                            new_stake_authority_pubkey,
                            new_withdraw_authority_pubkey)
    IN  new_with_payer(instructions \o authorize_instructions, fee_payer_pubkey)

\* faulty variant: every message targets the first derived address
authorize_stake_accounts_first(fee_payer_pubkey, base_pubkey, stake_authority_pubkey, withdraw_authority_pubkey, new_stake_authority_pubkey, new_withdraw_authority_pubkey, num_accounts) ==
    LET stake_account_addresses ==
            derive_stake_account_addresses(base_pubkey, num_accounts)
    IN  [k \in 1..num_accounts |->
            new_with_payer(
                authorize_stake_accounts_instructions(
                    stake_account_addresses[1],
                    stake_authority_pubkey, withdraw_authority_pubkey,
                    new_stake_authority_pubkey, new_withdraw_authority_pubkey),
                fee_payer_pubkey)]

\* faulty variant: a message also carries the instructions of the next account
authorize_stake_accounts_entangled(fee_payer_pubkey, base_pubkey, stake_authority_pubkey, withdraw_authority_pubkey, new_stake_authority_pubkey, new_withdraw_authority_pubkey, num_accounts) ==
    LET stake_account_addresses ==
            derive_stake_account_addresses(base_pubkey, num_accounts)
    IN  [k \in 1..num_accounts |->
            new_with_payer(
                authorize_stake_accounts_instructions(
                    stake_account_addresses[k],
                    stake_authority_pubkey, withdraw_authority_pubkey,
                    new_stake_authority_pubkey, new_withdraw_authority_pubkey)
                \o authorize_stake_accounts_instructions(
                    stake_account_addresses[(k % num_accounts) + 1],
                    stake_authority_pubkey, withdraw_authority_pubkey,
                    new_stake_authority_pubkey, new_withdraw_authority_pubkey),
                fee_payer_pubkey)]

authorize_stake_accounts(fee_payer_pubkey, base_pubkey, stake_authority_pubkey, withdraw_authority_pubkey, new_stake_authority_pubkey, new_withdraw_authority_pubkey, num_accounts) ==
    LET stake_account_addresses ==
            derive_stake_account_addresses(base_pubkey, num_accounts)
    IN  [k \in 1..Len(stake_account_addresses) |->
            new_with_payer(
                authorize_stake_accounts_instructions(
                    stake_account_addresses[k],
                    stake_authority_pubkey, withdraw_authority_pubkey,
                    new_stake_authority_pubkey, new_withdraw_authority_pubkey),
                fee_payer_pubkey)]

\* faulty variant: the entries are paired with the indices in reverse
move_stake_accounts_reversed(fee_payer_pubkey, new_base_pubkey, stake_authority_pubkey, withdraw_authority_pubkey, new_stake_authority_pubkey, new_withdraw_authority_pubkey, balances) ==
    [k \in 1..Len(balances) |->
        move_stake_account(balances[Len(balances) + 1 - k][1], new_base_pubkey,
            USize(k - 1), fee_payer_pubkey,
            stake_authority_pubkey, withdraw_authority_pubkey,
            new_stake_authority_pubkey, new_withdraw_authority_pubkey,
            balances[Len(balances) + 1 - k][2])]

\* balances.iter().enumerate().map(..).collect(): entry k of the sequence
\* (from 1) is enumerated with i = k-1
move_stake_accounts(fee_payer_pubkey, new_base_pubkey, stake_authority_pubkey, withdraw_authority_pubkey, new_stake_authority_pubkey, new_withdraw_authority_pubkey, balances) ==
    [k \in 1..Len(balances) |->
        move_stake_account(balances[k][1], new_base_pubkey, USize(k - 1),
            fee_payer_pubkey,
            stake_authority_pubkey, withdraw_authority_pubkey,
            new_stake_authority_pubkey, new_withdraw_authority_pubkey,
            balances[k][2])]

----------------------------------------------------------------------------
(* The ledger: what a submitted message does to the stake accounts.  A     *)
(* message is one transaction: its instructions are processed in order and *)
(* the accounts change only if every one of them succeeds.                 *)

NoKey == Key("none")

\* the address formula of the owning program, recomputed by the ledger
address_with_seed(base, seed, owner) == [hash |-> <<base, seed, owner>>]

process_instruction(acc, ins) ==
    CASE ins.kind = "CreateAccountWithSeed" ->
            IF /\ ins.to \notin DOMAIN acc
               /\ ins.to = address_with_seed(ins.base, ins.seed, ins.owner)
            THEN Ok((ins.to :> [owner |-> ins.owner, lamports |-> ins.lamports,
                                state |-> "Uninitialized",
                                staker |-> NoKey, withdrawer |-> NoKey,
                                lockup |-> LockupDefault]) @@ acc)
            ELSE Err("create")
      [] ins.kind = "Initialize" ->
            IF /\ ins.stake \in DOMAIN acc
               /\ acc[ins.stake].owner = StakeProgramId
               /\ acc[ins.stake].state = "Uninitialized"
            THEN Ok([acc EXCEPT ![ins.stake].state = "Stake",
                                ![ins.stake].staker = ins.authorized.staker,
                                ![ins.stake].withdrawer = ins.authorized.withdrawer,
                                ![ins.stake].lockup = ins.lockup])
            ELSE Err("initialize")
      [] ins.kind = "Split" ->
            IF /\ ins.stake \in DOMAIN acc
               /\ ins.split_stake \in DOMAIN acc
               /\ ins.stake # ins.split_stake
               /\ acc[ins.stake].state = "Stake"
               /\ acc[ins.stake].staker = ins.authority
               /\ acc[ins.stake].lamports >= ins.lamports
               /\ acc[ins.split_stake].owner = StakeProgramId
               /\ acc[ins.split_stake].state = "Uninitialized"
            THEN Ok([acc EXCEPT
                       ![ins.stake].lamports = @ - ins.lamports,
                       ![ins.split_stake].lamports = @ + ins.lamports,
                       ![ins.split_stake].state = "Stake",
                       ![ins.split_stake].staker = acc[ins.stake].staker,
                       ![ins.split_stake].withdrawer = acc[ins.stake].withdrawer,
                       ![ins.split_stake].lockup = acc[ins.stake].lockup])
            ELSE Err("split")
      [] ins.kind = "Authorize" ->
            IF /\ ins.stake \in DOMAIN acc
               /\ acc[ins.stake].state = "Stake"
               /\ \/ ins.role = "Staker" /\ acc[ins.stake].staker = ins.authority
                  \/ ins.role = "Withdrawer" /\ acc[ins.stake].withdrawer = ins.authority
            THEN Ok(IF ins.role = "Staker"
                    THEN [acc EXCEPT ![ins.stake].staker = ins.new_authority]
                    ELSE [acc EXCEPT ![ins.stake].withdrawer = ins.new_authority])
            ELSE Err("authorize")

RECURSIVE process_from(_, _, _)
\* the instructions from position k on, applied to acc
process_from(acc, instructions, k) ==
    IF k > Len(instructions) THEN Ok(acc)
    ELSE LET r == process_instruction(acc, instructions[k])
         IN  IF r.ok THEN process_from(r.val, instructions, k + 1) ELSE r

process_message(acc, message) == process_from(acc, message.instructions, 1)

----------------------------------------------------------------------------
(* Inputs                                                                  *)

\* arbitrary seeds of every length up to MaxSeedTry, and the seeds of indices
Seeds == {[j \in 1..n |-> 97] : n \in 0..MaxSeedTry}
            \cup {to_string(USize(n)) : n \in 0..MaxAccounts}

\* indices at the ends of every limb, up to usize::MAX
Indices == {USize(n) : n \in 0..MaxAccounts}
            \cup {USize(Limb - 1), <<0, 1, 0>>, <<0, Limb - 1, Limb - 1>>,
                  <<1, 0, 0>>, USizeMax}

FeePayers == {Key("K1"), Key("K3")}

Amounts == {1000, 2500}

\* the base whose accounts exist before the call, and their authorities
ExistingBase == Key("K1")
ExistingStaker == Key("K2")
ExistingWithdrawer == Key("K3")
ExistingLamports == 3 * 1000

ExistingAddresses ==
    {address_with_seed(ExistingBase, to_string(USize(n)), StakeProgramId) :
        n \in 0..(NumExisting - 1)}

InitAccounts ==
    [a \in ExistingAddresses |->
        [owner |-> StakeProgramId, lamports |-> ExistingLamports,
         state |-> "Stake", staker |-> ExistingStaker,
         withdrawer |-> ExistingWithdrawer, lockup |-> LockupDefault]]

\* a base under which no account exists yet
FreshBases == Keys \ {ExistingBase}

RECURSIVE SeqsUpTo(_, _)
\* the sequences over S of length at most n
SeqsUpTo(S, n) ==
    IF n = 0 THEN {<<>>}
    ELSE LET shorter == SeqsUpTo(S, n - 1)
         IN  shorter \cup {Append(s, x) : s \in shorter, x \in S}

BalanceLists == SeqsUpTo(ExistingAddresses \X Amounts, MaxBatches)

----------------------------------------------------------------------------
(* State machine                                                           *)

\* the messages of the call, in the order they were returned
Messages ==
    IF op = "new_stake_account" THEN <<ret>>
    ELSE IF op \in {"authorize_stake_accounts", "move_stake_accounts"} THEN ret
    ELSE <<>>

Init ==
    /\ op = "none"
    /\ args = <<>>
    /\ ret = <<>>
    /\ status = <<>>
    /\ accounts = InitAccounts

CallCreateWithSeed ==
    /\ op = "none"
    /\ \E base \in Keys, seed \in Seeds, program_id \in {StakeProgramId, SystemProgramId} :
        /\ op' = "create_with_seed"
        /\ args' = [base |-> base, seed |-> seed, program_id |-> program_id]
        /\ ret' = create_with_seed(base, seed, program_id)
    /\ UNCHANGED <<status, accounts>>

CallDeriveAddress ==
    /\ op = "none"
    /\ \E base \in Keys, i \in Indices :
        /\ op' = "derive_stake_account_address"
        /\ args' = [base |-> base, i |-> i]
        /\ ret' = derive_stake_account_address(base, i)
    /\ UNCHANGED <<status, accounts>>

CallDeriveAddresses ==
    /\ op = "none"
    /\ \E base \in Keys, n \in 0..MaxAccounts :
        /\ op' = "derive_stake_account_addresses"
        /\ args' = [base |-> base, num_accounts |-> n]
        /\ ret' = derive_stake_account_addresses(base, n)
    /\ UNCHANGED <<status, accounts>>

CallNewStakeAccount ==
    /\ op = "none"
    /\ \E fee_payer \in FeePayers, sender \in Keys, base \in Keys,
          lamports \in Amounts, staker \in Keys, withdrawer \in Keys :
        /\ op' = "new_stake_account"
        /\ args' = [fee_payer |-> fee_payer, sender |-> sender, base |-> base,
                    lamports |-> lamports, staker |-> staker,
                    withdrawer |-> withdrawer]
        /\ ret' = new_stake_account(fee_payer, sender, base, lamports,
                                    staker, withdrawer)
        /\ status' = <<"built">>
    /\ UNCHANGED accounts

CallAuthorizeStakeAccounts ==
    /\ op = "none"
    /\ \E fee_payer \in FeePayers, base \in Keys, staker \in Keys,
          withdrawer \in Keys, new_staker \in Keys, new_withdrawer \in Keys,
          n \in 0..MaxBatches :
        /\ op' = "authorize_stake_accounts"
        /\ args' = [fee_payer |-> fee_payer, base |-> base,
                    staker |-> staker, withdrawer |-> withdrawer,
                    new_staker |-> new_staker,
                    new_withdrawer |-> new_withdrawer, num_accounts |-> n]
        /\ ret' = authorize_stake_accounts(fee_payer, base, staker, withdrawer,
                                           new_staker, new_withdrawer, n)
        /\ status' = [k \in 1..Len(ret') |-> "built"]
    /\ UNCHANGED accounts

CallMoveStakeAccounts ==
    /\ op = "none"
    /\ \E fee_payer \in FeePayers, new_base \in FreshBases, staker \in Keys,
          withdrawer \in Keys, new_staker \in Keys, new_withdrawer \in Keys,
          balances \in BalanceLists :
        /\ op' = "move_stake_accounts"
        /\ args' = [fee_payer |-> fee_payer, new_base |-> new_base,
                    staker |-> staker, withdrawer |-> withdrawer,
                    new_staker |-> new_staker,
                    new_withdrawer |-> new_withdrawer, balances |-> balances]
        /\ ret' = move_stake_accounts(fee_payer, new_base, staker, withdrawer,
                                      new_staker, new_withdrawer, balances)
        /\ status' = [k \in 1..Len(ret') |-> "built"]
    /\ UNCHANGED accounts

\* message k is submitted and processed as one transaction
Submit ==
    /\ \E k \in 1..Len(status) :
        /\ status[k] = "built"
        /\ LET r == process_message(accounts, Messages[k])
           IN  IF r.ok
               THEN /\ accounts' = r.val
                    /\ status' = [status EXCEPT ![k] = "applied"]
               ELSE /\ accounts' = accounts
                    /\ status' = [status EXCEPT ![k] = "failed"]
    /\ UNCHANGED <<op, args, ret>>

\* message k never lands (not signed, dropped, expired)
Drop ==
    /\ \E k \in 1..Len(status) :
        /\ status[k] = "built"
        /\ status' = [status EXCEPT ![k] = "failed"]
    /\ UNCHANGED <<op, args, ret, accounts>>

Next ==
    \/ CallCreateWithSeed
    \/ CallDeriveAddress
    \/ CallDeriveAddresses
    \/ CallNewStakeAccount
    \/ CallAuthorizeStakeAccounts
    \/ CallMoveStakeAccounts
    \/ Submit
    \/ Drop

Spec == Init /\ [][Next]_vars

----------------------------------------------------------------------------
(* Properties                                                              *)

\* the instructions of a message that are of one kind, in message order
OfKind(message, kind) ==
    SelectSeq(message.instructions, LAMBDA ins : ins.kind = kind)

\* the address the ledger derives for index n (from 0) under a base
SeededAddress(base, n) ==
    address_with_seed(base, to_string(USize(n)), StakeProgramId)

IsMove == op = "move_stake_accounts"
IsAuthorize == op = "authorize_stake_accounts"
IsNew == op = "new_stake_account"

\* C1: in every message built by move_stake_accounts, the base and the seed
\* carried by the split-with-seed step re-derive the destination it names:
\* the base is new_base, the seed is the decimal string of the index, and
\* the ledger's hash of (base, seed, staking program) is the destination.
C1_SplitSeedRederivesDestination ==
    IsMove =>
        \A k \in 1..Len(ret) :
            \A j \in 1..Len(ret[k].instructions) :
                LET ins == ret[k].instructions[j]
                IN  ins.kind = "CreateAccountWithSeed" =>
                        /\ ins.base = args.new_base
                        /\ ins.seed = to_string(USize(k - 1))
                        /\ address_with_seed(ins.base, ins.seed, StakeProgramId)
                              = ins.to

\* C2 as stated: move_stake_accounts returns one message per entry, each of
\* exactly 3 instructions [split, authorize staker, authorize withdrawer],
\* the split going to the address derived from new_base at the entry's index.
C2_ThreeInstructions ==
    IsMove =>
        /\ Len(ret) = Len(args.balances)
        /\ \A k \in 1..Len(ret) :
            LET ins == ret[k].instructions
            IN  /\ Len(ins) = 3
                /\ ins[1].kind = "Split"
                /\ ins[1].split_stake = SeededAddress(args.new_base, k - 1)
                /\ ins[2].kind = "Authorize" /\ ins[2].role = "Staker"
                /\ ins[3].kind = "Authorize" /\ ins[3].role = "Withdrawer"

\* C2 amended: move_stake_accounts returns one message per entry, in input
\* order; message i has exactly 4 instructions in the order [create the
\* seeded destination, split, authorize staker, authorize withdrawer], and
\* the destination created, split into and re-authorized is the address
\* derived from new_base at index i.
C2_MoveShape ==
    IsMove =>
        /\ Len(ret) = Len(args.balances)
        /\ \A k \in 1..Len(ret) :
            LET ins == ret[k].instructions
                dest == SeededAddress(args.new_base, k - 1)
            IN  /\ Len(ins) = 4
                /\ ins[1].kind = "CreateAccountWithSeed" /\ ins[1].to = dest
                /\ ins[1].owner = StakeProgramId
                /\ ins[2].kind = "Split" /\ ins[2].split_stake = dest
                /\ ins[2].stake = args.balances[k][1]
                /\ ins[3].kind = "Authorize" /\ ins[3].role = "Staker"
                /\ ins[3].stake = dest
                /\ ins[4].kind = "Authorize" /\ ins[4].role = "Withdrawer"
                /\ ins[4].stake = dest

C2_Witness == IsMove /\ Len(ret) >= 2

\* C3: with every move message applied as one transaction, each destination
\* (the address derived from new_base at index i) either does not exist or
\* holds the lamports of entry i under staker = new_staker and withdrawer =
\* new_withdrawer; and a message that fails changes no account.
C3_DestinationInv ==
    IsMove =>
        \A k \in 1..Len(args.balances) :
            LET dest == SeededAddress(args.new_base, k - 1)
            IN  \/ dest \notin DOMAIN accounts
                \/ /\ accounts[dest].lamports = args.balances[k][2]
                   /\ accounts[dest].state = "Stake"
                   /\ accounts[dest].staker = args.new_staker
                   /\ accounts[dest].withdrawer = args.new_withdrawer

C3_FailedLeavesAccounts ==
    (IsMove /\ \E k \in 1..Len(status) :
                  status[k] = "built" /\ status'[k] = "failed")
        => accounts' = accounts

C3_MoveAtomic == []C3_DestinationInv /\ [][C3_FailedLeavesAccounts]_vars

C3_Witness ==
    /\ IsMove
    /\ \E k \in 1..Len(status) :
        /\ status[k] = "applied"
        /\ SeededAddress(args.new_base, k - 1) \in DOMAIN accounts
    /\ \E k \in 1..Len(status) : status[k] = "failed"

\* C4: the split of message i takes exactly the lamports of entry i out of
\* the address of entry i, under the authority of the old staker, into the
\* destination of index i; no entry is paired with another entry's index.
C4_SplitAligned ==
    IsMove =>
        \A k \in 1..Len(ret) :
            LET splits == OfKind(ret[k], "Split")
            IN  /\ Len(splits) = 1
                /\ splits[1].stake = args.balances[k][1]
                /\ splits[1].lamports = args.balances[k][2]
                /\ splits[1].authority = args.staker
                /\ splits[1].split_stake = SeededAddress(args.new_base, k - 1)

\* the worked example: [(X, 1000), (Y, 2500)] with X # Y
C4_Witness ==
    /\ IsMove
    /\ Len(args.balances) = 2
    /\ args.balances[1][1] # args.balances[2][1]
    /\ args.balances[1][2] = 1000
    /\ args.balances[2][2] = 2500
    /\ OfKind(ret[2], "Split")[1].lamports = 2500

\* C5: authorize_stake_accounts with count n returns exactly n messages;
\* message i holds exactly 2 instructions, both on the address derived from
\* base at index i: the staker authorize by the old staker to the new one,
\* then the withdrawer authorize by the old withdrawer to the new one.
C5_AuthorizeShape ==
    IsAuthorize =>
        /\ Len(ret) = args.num_accounts
        /\ \A k \in 1..Len(ret) :
            LET ins == ret[k].instructions
                addr == SeededAddress(args.base, k - 1)
            IN  /\ Len(ins) = 2
                /\ ins[1].kind = "Authorize" /\ ins[1].role = "Staker"
                /\ ins[1].stake = addr
                /\ ins[1].authority = args.staker
                /\ ins[1].new_authority = args.new_staker
                /\ ins[2].kind = "Authorize" /\ ins[2].role = "Withdrawer"
                /\ ins[2].stake = addr
                /\ ins[2].authority = args.withdrawer
                /\ ins[2].new_authority = args.new_withdrawer

C5_Witness == IsAuthorize /\ args.num_accounts >= 2 /\ Len(ret) >= 2

\* C6: message i of authorize_stake_accounts names no stake account but the
\* one derived at index i; whatever the order of submission and whichever
\* messages fail, an account whose message was applied is under the new
\* staker and withdrawer and is otherwise as before, and every other account
\* (its message failed, is not yet submitted, or there is none) is as before.
C6_RotationIndependent ==
    IsAuthorize =>
        /\ \A k \in 1..Len(ret) :
            \A j \in 1..Len(ret[k].instructions) :
                ret[k].instructions[j].stake = SeededAddress(args.base, k - 1)
        /\ DOMAIN accounts = DOMAIN InitAccounts
        /\ \A a \in DOMAIN accounts :
            IF \E k \in 1..Len(status) :
                    status[k] = "applied" /\ a = SeededAddress(args.base, k - 1)
            THEN accounts[a] = [InitAccounts[a] EXCEPT
                                    !.staker = args.new_staker,
                                    !.withdrawer = args.new_withdrawer]
            ELSE accounts[a] = InitAccounts[a]

\* one message applied, another failed, and the applied one changed its account
C6_Witness ==
    /\ IsAuthorize
    /\ \E k, l \in 1..Len(status) :
        /\ status[k] = "applied"
        /\ status[l] = "failed"
        /\ accounts[SeededAddress(args.base, k - 1)]
              # InitAccounts[SeededAddress(args.base, k - 1)]

\* C7 as stated: new_stake_account builds one message paid by fee_payer that
\* holds one instruction, which creates the account derived from base at
\* index 0 (base, seed "0"), funded from sender with lamports, owned by the
\* staking program, with the given authorities and the default lockup.
C7_OneInstruction ==
    IsNew =>
        /\ ret.payer = args.fee_payer
        /\ Len(ret.instructions) = 1
        /\ ret.instructions[1].to = SeededAddress(args.base, 0)
        /\ ret.instructions[1].from = args.sender
        /\ ret.instructions[1].lamports = args.lamports

\* C7 amended: new_stake_account always targets index 0: it builds one
\* message paid by fee_payer that holds two instructions on the address
\* derived from base at index 0: first the creation of the account (base,
\* seed "0", funded from sender with exactly lamports, owned by the staking
\* program), then its initialization with staker and withdrawer as given
\* and the default lockup.  Applied, the message leaves that account so.
C7_CreateShape ==
    IsNew =>
        LET ins == ret.instructions
            addr == SeededAddress(args.base, 0)
        IN  /\ ret.payer = args.fee_payer
            /\ Len(ins) = 2
            /\ ins[1].kind = "CreateAccountWithSeed"
            /\ ins[1].to = addr
            /\ ins[1].base = args.base
            /\ ins[1].seed = <<Ascii0>>
            /\ ins[1].from = args.sender
            /\ ins[1].lamports = args.lamports
            /\ ins[1].owner = StakeProgramId
            /\ ins[2].kind = "Initialize"
            /\ ins[2].stake = addr
            /\ ins[2].authorized = [staker |-> args.staker,
                                   withdrawer |-> args.withdrawer]
            /\ ins[2].lockup = LockupDefault
            /\ status[1] = "applied" =>
                    /\ addr \in DOMAIN accounts
                    /\ accounts[addr] =
                          [owner |-> StakeProgramId, lamports |-> args.lamports,
                           state |-> "Stake", staker |-> args.staker,
                           withdrawer |-> args.withdrawer,
                           lockup |-> LockupDefault]

C7_Witness ==
    /\ IsNew
    /\ status[1] = "applied"
    /\ args.staker # args.withdrawer
    /\ args.fee_payer # args.sender

\* C8: create_with_seed fails with MaxSeedLengthExceeded exactly when the
\* seed is longer than 32 bytes; for every seed of 0..32 bytes it returns
\* the hash of (base, seed, program id), and for 33 bytes and more it
\* returns the error and no address.
C8_SeedLimit ==
    op = "create_with_seed" =>
        /\ ret.ok <=> Len(args.seed) <= 32
        /\ ret.ok =>
                ret = [ok |-> TRUE,
                       val |-> [hash |-> <<args.base, args.seed, args.program_id>>]]
        /\ ~ret.ok => ret = [ok |-> FALSE, err |-> "MaxSeedLengthExceeded"]

C8_Witness ==
    /\ op = "create_with_seed"
    /\ Len(args.seed) = 33
    /\ ~ret.ok

\* the addresses a result of an operation names
ResultAddresses ==
    CASE op = "derive_stake_account_address" -> {ret}
      [] op = "derive_stake_account_addresses" -> {ret[k] : k \in 1..Len(ret)}
      [] op \in {"new_stake_account", "authorize_stake_accounts",
                 "move_stake_accounts"} ->
            UNION {{IF ins.kind = "CreateAccountWithSeed" THEN ins.to
                    ELSE IF ins.kind = "Split" THEN ins.split_stake
                    ELSE ins.stake :
                        ins \in {Messages[k].instructions[j] :
                                    j \in 1..Len(Messages[k].instructions)}} :
                   k \in 1..Len(Messages)}
      [] OTHER -> {}

\* C9: derive_stake_account_address never fails: the decimal seed of any
\* 64-bit index is at most 20 bytes, below MAX_SEED_LEN, so neither it nor
\* derive_stake_account_addresses nor any builder reaches the unwrap of an
\* error.
C9_NeverPanics ==
    /\ Panic \notin ResultAddresses
    /\ op = "derive_stake_account_address" =>
            /\ Len(to_string(args.i)) <= 20
            /\ Len(to_string(args.i)) <= MAX_SEED_LEN
            /\ ret = [hash |-> <<args.base, to_string(args.i), StakeProgramId>>]

\* the largest index, whose seed has 20 digits
C9_Witness ==
    /\ op = "derive_stake_account_address"
    /\ args.i = USizeMax
    /\ Len(to_string(args.i)) = 20
    /\ ret # Panic

\* C10: derive_stake_account_addresses(base, n) returns n addresses in index
\* order: position i holds the address of index i, the hash of (base, the
\* decimal string of i, staking program); n = 3 gives the addresses of the
\* seeds "0", "1", "2" in that order; the addresses are pairwise distinct.
C10_RangeIntegrity ==
    op = "derive_stake_account_addresses" =>
        /\ Len(ret) = args.num_accounts
        /\ \A k \in 1..Len(ret) :
            /\ ret[k] = derive_stake_account_address(args.base, USize(k - 1))
            /\ ret[k] = [hash |-> <<args.base, to_string(USize(k - 1)),
                                    StakeProgramId>>]
        /\ args.num_accounts = 3 =>
                ret = << [hash |-> <<args.base, <<48>>, StakeProgramId>>],
                         [hash |-> <<args.base, <<49>>, StakeProgramId>>],
                         [hash |-> <<args.base, <<50>>, StakeProgramId>>] >>
        /\ \A k, l \in 1..Len(ret) : k # l => ret[k] # ret[l]

C10_Witness ==
    /\ op = "derive_stake_account_addresses"
    /\ args.num_accounts = 3
    /\ Len(ret) = 3

====
